---- MODULE Spec2Model ----
(***************************************************************************)
(* A model of the YBSC (Yale Bright Star Catalog) binary decoder of        *)
(* src/src/lib.rs: the primitive little-endian readers, the header and     *)
(* record decoders, the RawEntry -> Star conversion and Ybsc::read_from.   *)
(*                                                                         *)
(* Representation of machine values                                        *)
(*   i32, i16   an integer of that range                                   *)
(*   u32        <<l0, l1>>            16-bit limbs, least significant first *)
(*   u64, usize <<l0, l1, l2, l3>>    16-bit limbs (usize is 64 bits wide)  *)
(*   f32        [sign, exp, frac]     the three fields of the bit pattern   *)
(*   f64        [sign, exp, frac]     frac is <<16, 16, 16, 4>> bits        *)
(*   char       its code point                                              *)
(* Limbs are used wherever a value may reach 2^31.                          *)
(*                                                                         *)
(* Memory is assumed sufficient: Vec::with_capacity fails only by the      *)
(* capacity-overflow panic, never by the allocator refusing a request.     *)
(***************************************************************************)
EXTENDS Integers, Sequences, FiniteSets, TLC

VARIABLES stream, pos, pc, hvals, ent, equinox, nstar, have_proper_motion,
          id_type, stars, i, result, ret

vars == <<stream, pos, pc, hvals, ent, equinox, nstar, have_proper_motion,
          id_type, stars, i, result, ret>>

(***************************************************************************)
(* Bounds of the model.                                                    *)
(***************************************************************************)
\* The largest number of complete 32-byte records physically present in a
\* stream of the general input family.
MaxRecords == 3

(***************************************************************************)
(* Program constants.                                                      *)
(***************************************************************************)
\* The only accepted value of the header's nbent field.
EntrySize == 32

MinI32 == (-2147483647) - 1
MaxI32 == -(MinI32 + 1)

\* size_of::<Star>(): u32 + f64 + f64 + [char;2] + f32 + f32 + f32.
StarSize == 40

(***************************************************************************)
(* Results of fallible operations.                                         *)
(***************************************************************************)
Ok(v) == [ok |-> TRUE, err |-> "", val |-> <<v>>]
Err(e) == [ok |-> FALSE, err |-> e, val |-> <<>>]

(***************************************************************************)
(* The byte source.  A read of n bytes at cursor p starts from a zeroed    *)
(* buffer ("let mut x = [0;n]") and read_exact fills it, or fails when the *)
(* stream holds fewer than n more bytes.                                   *)
(***************************************************************************)
read_exact_short(s, p, n) == p < Len(s)

read_exact_ok(s, p, n) == p + n <= Len(s)

Fill(s, p, n) == [k \in 1..n |-> IF p + k <= Len(s) THEN s[p + k] ELSE 0]

(***************************************************************************)
(* from_le_bytes and from_bits.                                            *)
(***************************************************************************)
I16FromLeBytes(x) == x[1] + 256 * (IF x[2] >= 128 THEN x[2] - 256 ELSE x[2])

I32FromLeBytes(x) ==
    x[1] + 256 * x[2] + 65536 * x[3]
         + 16777216 * (IF x[4] >= 128 THEN x[4] - 256 ELSE x[4])

U32FromLeBytes(x) == <<x[1] + 256 * x[2], x[3] + 256 * x[4]>>

U64FromLeBytes(x) ==
    <<x[1] + 256 * x[2], x[3] + 256 * x[4],
      x[5] + 256 * x[6], x[7] + 256 * x[8]>>

F32FromBits(u) ==
    [sign |-> u[2] \div 32768,
     exp  |-> (u[2] % 32768) \div 128,
     frac |-> (u[2] % 128) * 65536 + u[1]]

F64FromBits(u) ==
    [sign |-> u[4] \div 32768,
     exp  |-> (u[4] % 32768) \div 16,
     frac |-> <<u[1], u[2], u[3], u[4] % 16>>]

\* char::from_u32: Some(c) for a Unicode scalar value, None for a surrogate
\* or a value above 0x10FFFF.  <<c>> is Some(c), <<>> is None.
CharFromU32_ascii(n) == IF n < 128 THEN <<n>> ELSE <<>>

CharFromU32(n) ==
    IF n < 55296 \/ (n > 57343 /\ n <= 1114111) THEN <<n>> ELSE <<>>

(***************************************************************************)
(* The primitive readers.  Each returns the value read, or an error; the   *)
(* caller advances the cursor.                                             *)
(***************************************************************************)
read_char(s, p) ==
    IF ~read_exact_ok(s, p, 1) THEN Err("TruncatedInput")
    ELSE LET x == Fill(s, p, 1)
             c == CharFromU32(x[1])
         IN  IF c = <<>> THEN Err("InvalidChar") ELSE Ok(c[1])

read_i16(s, p) ==
    IF ~read_exact_ok(s, p, 2) THEN Err("TruncatedInput")
    ELSE Ok(I16FromLeBytes(Fill(s, p, 2)))

read_i32(s, p) ==
    IF ~read_exact_ok(s, p, 4) THEN Err("TruncatedInput")
    ELSE Ok(I32FromLeBytes(Fill(s, p, 4)))

read_u32(s, p) ==
    IF ~read_exact_ok(s, p, 4) THEN Err("TruncatedInput")
    ELSE Ok(U32FromLeBytes(Fill(s, p, 4)))

read_u64(s, p) ==
    IF ~read_exact_ok(s, p, 8) THEN Err("TruncatedInput")
    ELSE Ok(U64FromLeBytes(Fill(s, p, 8)))

read_f32(s, p) ==
    LET x == read_u32(s, p)
    IN  IF ~x.ok THEN x ELSE Ok(F32FromBits(x.val[1]))

read_f64(s, p) ==
    LET x == read_u64(s, p)
    IN  IF ~x.ok THEN x ELSE Ok(F64FromBits(x.val[1]))

(***************************************************************************)
(* RawHeader: the seven header fields in the order they are read.          *)
(***************************************************************************)
HeaderFields == 7

RawHeader(h) ==
    [star0 |-> h[1], star1 |-> h[2], starn |-> h[3], stnum |-> h[4],
     mprop |-> (h[5] # 0), nmag |-> h[6], nbent |-> h[7]]

(***************************************************************************)
(* RawEntry: the eight record fields in the order they are read, and the   *)
(* reader and width of each.                                               *)
(***************************************************************************)
EntryFields == 8

FieldWidth_all4(k) == 4

FieldWidth(k) ==
    CASE k = 1 -> 4
      [] k \in {2, 3} -> 8
      [] k \in {4, 5} -> 1
      [] k = 6 -> 2
      [] OTHER -> 4

read_field(k, s, p) ==
    CASE k = 1 -> read_f32(s, p)
      [] k \in {2, 3} -> read_f64(s, p)
      [] k \in {4, 5} -> read_char(s, p)
      [] k = 6 -> read_i16(s, p)
      [] OTHER -> read_f32(s, p)

RawEntry(e) ==
    [xno |-> e[1], sra0 |-> e[2], sdec0 |-> e[3], is |-> <<e[4], e[5]>>,
     mag |-> e[6], xrpm |-> e[7], xdpm |-> e[8]]

\* Entry::valid: some spectral-type character is not the space character.
valid_always(e) == TRUE

valid(e) == e.is[1] # 32 \/ e.is[2] # 32

(***************************************************************************)
(* f32 predicates and casts used by the conversion.                        *)
(***************************************************************************)
is_finite(x) == x.exp # 255

IsNaN(x) == x.exp = 255 /\ x.frac # 0

IsZero(x) == x.exp = 0 /\ x.frac = 0

\* xno < 0.0: false for NaN and for both zeros.
LtZero(x) == x.sign = 1 /\ ~IsNaN(x) /\ ~IsZero(x)

Pow2(n) == IF n <= 0 THEN 1 ELSE 2 ^ n

U32Max == <<65535, 65535>>

\* "xno as u32": truncation toward zero, saturating at the ends of the
\* range, NaN to 0.
F32AsU32_wrapping(x) ==
    IF IsNaN(x) \/ x.sign = 1 \/ x.exp < 127 THEN <<0, 0>>
    ELSE IF x.exp >= 159 THEN <<0, 0>>
    ELSE LET sig == 8388608 + x.frac
             sh  == x.exp - 150
         IN  IF sh <= 0
             THEN LET v == sig \div Pow2(-sh) IN <<v % 65536, v \div 65536>>
             ELSE <<(sig % Pow2(16 - sh)) * Pow2(sh), sig \div Pow2(16 - sh)>>

F32AsU32(x) ==
    IF IsNaN(x) \/ x.sign = 1 \/ x.exp < 127 THEN <<0, 0>>
    ELSE IF x.exp >= 159 THEN U32Max
    ELSE LET sig == 8388608 + x.frac
             sh  == x.exp - 150
         IN  IF sh <= 0
             THEN LET v == sig \div Pow2(-sh) IN <<v % 65536, v \div 65536>>
             ELSE <<(sig % Pow2(16 - sh)) * Pow2(sh), sig \div Pow2(16 - sh)>>

\* "mag as f32 / 100.0": the i16 converts exactly, 100.0 is exact, and the
\* division rounds to the nearest f32, ties to even.  With n = |mag| > 0,
\* E is the exponent of n/100 (2^E <= n/100 < 2^(E+1), E in -7..8) and q
\* the 24-bit significand of the quotient.
QuotExp(n) == CHOOSE E \in -7..8 :
                 100 * Pow2(E + 7) <= n * 128 /\ n * 128 < 100 * Pow2(E + 8)

RoundedF32(sign, E, q) ==
    IF q = 16777216
    THEN [sign |-> sign, exp |-> E + 128, frac |-> 0]
    ELSE [sign |-> sign, exp |-> E + 127, frac |-> q - 8388608]

I16AsF32Div100(mag) ==
    IF mag = 0 THEN [sign |-> 0, exp |-> 0, frac |-> 0]
    ELSE LET n == IF mag < 0 THEN -mag ELSE mag
             E == QuotExp(n)
             N == n * Pow2(23 - E)
             q == N \div 100
             r == N % 100
             up == 2 * r > 100 \/ (2 * r = 100 /\ q % 2 = 1)
         IN  RoundedF32(IF mag < 0 THEN 1 ELSE 0, E, IF up THEN q + 1 ELSE q)

(***************************************************************************)
(* TryFrom<RawEntry> for Star.                                             *)
(***************************************************************************)
xno_invalid_nonfinite_only(xno) == ~is_finite(xno)

xno_invalid(xno) == ~is_finite(xno) \/ LtZero(xno)

try_from_raw(raw) ==
    IF xno_invalid(raw.xno) THEN Err("InvalidStarNumber")
    ELSE Ok([xno |-> F32AsU32(raw.xno), sra0 |-> raw.sra0,
             sdec0 |-> raw.sdec0, is |-> raw.is,
             mag |-> I16AsF32Div100(raw.mag),
             xrpm |-> raw.xrpm, xdpm |-> raw.xdpm])

(***************************************************************************)
(* TryFrom<i32> for IdType.                                                *)
(***************************************************************************)
id_type_try_from(stnum) ==
    CASE stnum = 0 -> Ok("None")
      [] stnum = 1 -> Ok("SeeCatalog")
      [] stnum = 2 -> Ok("Included")
      [] OTHER -> Err("InvalidStnum")

(***************************************************************************)
(* The record count: "-hdr.starn as usize" negates the i32 first and then  *)
(* widens it.  Negating i32::MIN overflows: a build with overflow checks   *)
(* panics, one without wraps to i32::MIN, which the cast sign-extends.     *)
(***************************************************************************)
neg_i32(x, overflow_checks) ==
    IF x = MinI32
    THEN IF overflow_checks THEN Err("PanicNegOverflow") ELSE Ok(MinI32)
    ELSE Ok(-x)

I32AsUsize(x) ==
    IF x >= 0 THEN <<x % 65536, x \div 65536, 0, 0>>
    ELSE <<x % 65536, (x \div 65536) % 65536, 65535, 65535>>

\* a < b for two values of the same number of limbs.
LimbsLt(a, b) ==
    \E k \in 1..Len(a) :
        /\ a[k] < b[k]
        /\ \A j \in (k + 1)..Len(a) : a[j] = b[j]

\* The largest capacity whose byte size, StarSize * n, is at most
\* isize::MAX = 2^63 - 1: floor((2^63 - 1) / 40) = 0x0333_3333_3333_3333.
MaxCapacity == <<13107, 13107, 13107, 32768 \div StarSize>>

capacity_overflow(n) == LimbsLt(MaxCapacity, n)

equinox_of(starn) == IF starn < 0 THEN "J2000" ELSE "B1950"

(***************************************************************************)
(* Inputs: byte streams.  Integers are laid out little-endian; floats are  *)
(* given by the bytes of their bit patterns.                               *)
(***************************************************************************)
LE2(x) == <<x % 256, (x \div 256) % 256>>

LE4(x) == <<x % 256, (x \div 256) % 256, (x \div 65536) % 256,
            (x \div 16777216) % 256>>

Header(starn, stnum, mprop, nbent) ==
    LE4(0) \o LE4(1) \o LE4(starn) \o LE4(stnum) \o LE4(mprop) \o LE4(1)
           \o LE4(nbent)

\* f32 bit patterns of xno.
X42      == <<0, 0, 40, 66>>          \* 42.0
X7       == <<0, 0, 224, 64>>         \* 7.0
X9110    == <<0, 88, 14, 70>>         \* 9110.0
XOneHalf == <<0, 0, 192, 63>>         \* 1.5
XBelow1  == <<255, 255, 127, 63>>     \* 0.99999994
XZero    == <<0, 0, 0, 0>>            \* 0.0
XNegZero == <<0, 0, 0, 128>>          \* -0.0
XTiny    == <<1, 0, 0, 0>>            \* the least subnormal
XNegTiny == <<1, 0, 0, 128>>          \* minus the least subnormal
XMinus1  == <<0, 0, 128, 191>>        \* -1.0
XNaN     == <<0, 0, 192, 127>>        \* a quiet NaN
XInf     == <<0, 0, 128, 127>>        \* +infinity
XNegInf  == <<0, 0, 128, 255>>        \* -infinity
X2p24m1  == <<255, 255, 127, 75>>     \* 16777215.0
X2p31    == <<0, 0, 0, 79>>           \* 2147483648.0
XBelow2p32 == <<255, 255, 127, 79>>   \* 4294967040.0
X2p32    == <<0, 0, 128, 79>>         \* 4294967296.0
XMax     == <<255, 255, 127, 127>>    \* f32::MAX

\* f64 and f32 bit patterns of the other fields.
Sra0Bytes  == <<0, 0, 0, 0, 0, 0, 248, 63>>            \* 1.5
Sdec0Bytes == <<51, 51, 51, 51, 51, 51, 211, 191>>     \* -0.3
XrpmBytes  == <<111, 18, 131, 58>>                     \* 0.001
XdpmBytes  == <<111, 18, 3, 187>>                      \* -0.002

Record(xno, is0, is1, mag) ==
    xno \o Sra0Bytes \o Sdec0Bytes \o <<is0, is1>> \o LE2(mag)
        \o XrpmBytes \o XdpmBytes

\* The records of the general input family: kept, blank, and kept with an
\* invalid star number.
GoodO5      == Record(X42, 79, 53, 350)
GoodHalf    == Record(X7, 32, 66, -146)
BlankNaN    == Record(XNaN, 32, 32, 0)
BlankGood   == Record(X9110, 32, 32, 612)
BadMinus1   == Record(XMinus1, 65, 32, 100)

Templates == {GoodO5, GoodHalf, BlankNaN, BlankGood, BadMinus1}

RECURSIVE Concat(_)
Concat(ss) == IF ss = <<>> THEN <<>> ELSE Head(ss) \o Concat(Tail(ss))

Bodies == {Concat(b) : b \in UNION {[1..k -> Templates] : k \in 0..MaxRecords}}

\* What follows the complete records: nothing, or the start of one more.
Tails == {<<>>, SubSeq(GoodO5, 1, 2), SubSeq(GoodO5, 1, 21),
          SubSeq(GoodO5, 1, 31), SubSeq(BlankNaN, 1, 23)}

GoodHeaders ==
    {Header(n, 0, 0, EntrySize) : n \in {0, 1, 2, 3, -2, MaxI32}}
      \cup {Header(1, 1, 1, EntrySize), Header(-3, 2, 256, EntrySize)}

BadHeaders ==
    {Header(n, t, 1, EntrySize) : n \in {1, -1, MinI32}, t \in {3, -1, MinI32}}
      \cup {Header(MinI32, t, 0, EntrySize) : t \in {0, 1, 2}}
      \cup {Header(n, t, 0, b) : n \in {1, MinI32}, t \in {0, 3},
                                 b \in {0, 31, 33, -32, 8224}}

GeneralInputs == {h \o b \o t : h \in GoodHeaders, b \in Bodies, t \in Tails}

BadHeaderInputs ==
    {h \o b : h \in BadHeaders, b \in {<<>>, GoodO5, BadMinus1 \o GoodO5}}

ShortHeaderInputs ==
    {SubSeq(Header(1, 0, 0, EntrySize), 1, c) : c \in {0, 3, 4, 11, 27}}
      \cup {SubSeq(Header(1, 3, 0, 31), 1, c) : c \in {15, 26}}

\* One record after a plain header, over many star numbers, magnitudes and
\* spectral types.
XnoPatterns == {X42, X7, X9110, XOneHalf, XBelow1, XZero, XNegZero, XTiny,
                XNegTiny, XMinus1, XNaN, XInf, XNegInf, X2p24m1, X2p31,
                XBelow2p32, X2p32, XMax}

MagValues == {0, 1, -1, 25, 50, 99, 100, 350, -146, 612, 12345, 32767, -32768}

FieldInputs ==
    {Header(1, 0, 0, EntrySize) \o Record(x, 79, 53, m) :
        x \in XnoPatterns, m \in MagValues}

\* One record after a plain header, over every value of a spectral-type
\* byte, in each of the two positions.
CharInputs ==
    {Header(1, 0, 0, EntrySize) \o Record(X42, b, 32, 350) : b \in 0..255}
      \cup {Header(1, 0, 0, EntrySize) \o Record(X42, 32, b, 350) : b \in 0..255}

Inputs == GeneralInputs \cup BadHeaderInputs \cup ShortHeaderInputs
            \cup FieldInputs \cup CharInputs

(***************************************************************************)
(* Ybsc::read_from, one step per primitive read and per statement.         *)
(***************************************************************************)
Init ==
    /\ stream \in Inputs
    /\ pos = 0
    /\ pc = "header"
    /\ hvals = <<>>
    /\ ent = <<>>
    /\ equinox = "unset"
    /\ nstar = <<>>
    /\ have_proper_motion = FALSE
    /\ id_type = "unset"
    /\ stars = <<>>
    /\ i = 0
    /\ result = "running"
    /\ ret = <<>>

\* Where a failed read_exact may leave the cursor: read_exact says nothing
\* of how many bytes it consumed before it met the end of the stream.
EofCursors(s, p) == {p, Len(s)}

\* The "?" and bail! exits: the function returns Err (or unwinds), and the
\* locals, stars among them, are dropped: nothing is returned.
Fail(e) ==
    /\ result' = e
    /\ pc' = "done"
    /\ ret' = <<>>

hdr == RawHeader(hvals)

\* RawHeader::read_from: the next of the seven read_i32 calls.
ReadHeaderField ==
    /\ pc = "header"
    /\ LET r == read_i32(stream, pos)
       IN  IF r.ok
           THEN /\ hvals' = Append(hvals, r.val[1])
                /\ pos' = pos + 4
                /\ pc' = IF Len(hvals) + 1 = HeaderFields
                         THEN "nbent" ELSE "header"
                /\ UNCHANGED <<result, ret>>
           ELSE /\ pos' \in EofCursors(stream, pos)
                /\ Fail(r.err)
                /\ UNCHANGED hvals
    /\ UNCHANGED <<stream, ent, equinox, nstar, have_proper_motion, id_type,
                   stars, i>>

nbent_ok_at_least(h) == h.nbent >= EntrySize

nbent_ok(h) == h.nbent = EntrySize

\* if hdr.nbent != 32 { bail!(...) }
CheckEntrySize ==
    /\ pc = "nbent"
    /\ IF nbent_ok(hdr)
       THEN /\ pc' = "count"
            /\ UNCHANGED <<result, ret>>
       ELSE Fail("BadEntrySize")
    /\ UNCHANGED <<stream, pos, hvals, ent, equinox, nstar,
                   have_proper_motion, id_type, stars, i>>

\* let (equinox,nstar) = if hdr.starn < 0 { (J2000, -hdr.starn as usize) }
\*                       else { (B1950, hdr.starn as usize) };
DeriveCount ==
    /\ pc = "count"
    /\ \E overflow_checks \in BOOLEAN :
         LET n == IF hdr.starn < 0 THEN neg_i32(hdr.starn, overflow_checks)
                  ELSE Ok(hdr.starn)
         IN  IF n.ok
             THEN /\ equinox' = equinox_of(hdr.starn)
                  /\ nstar' = I32AsUsize(n.val[1])
                  /\ pc' = "alloc"
                  /\ UNCHANGED <<result, ret>>
             ELSE /\ Fail(n.err)
                  /\ UNCHANGED <<equinox, nstar>>
    /\ UNCHANGED <<stream, pos, hvals, ent, have_proper_motion, id_type,
                   stars, i>>

\* let mut stars = Vec::with_capacity(nstar);
\* let have_proper_motion = hdr.mprop;
Allocate ==
    /\ pc = "alloc"
    /\ IF capacity_overflow(nstar)
       THEN /\ Fail("PanicCapacityOverflow")
            /\ UNCHANGED <<stars, have_proper_motion>>
       ELSE /\ stars' = <<>>
            /\ have_proper_motion' = hdr.mprop
            /\ pc' = "idtype"
            /\ UNCHANGED <<result, ret>>
    /\ UNCHANGED <<stream, pos, hvals, ent, equinox, nstar, id_type, i>>

\* let id_type : IdType = hdr.stnum.try_into()?;
ConvertStnum ==
    /\ pc = "idtype"
    /\ LET r == id_type_try_from(hdr.stnum)
       IN  IF r.ok
           THEN /\ id_type' = r.val[1]
                /\ pc' = "loop"
                /\ UNCHANGED <<result, ret>>
           ELSE /\ Fail(r.err)
                /\ UNCHANGED id_type
    /\ UNCHANGED <<stream, pos, hvals, ent, equinox, nstar,
                   have_proper_motion, stars, i>>

\* for _ in 0..nstar: the next iteration, or the end of the loop and the
\* Ok(Self { equinox, have_proper_motion, id_type, stars }) that follows it.
loop_continues(k, n) == LimbsLt(I32AsUsize(k), n)

LoopTest ==
    /\ pc = "loop"
    /\ IF loop_continues(i, nstar)
       THEN /\ i' = i + 1
            /\ ent' = <<>>
            /\ pc' = "entry"
            /\ UNCHANGED <<result, ret>>
       ELSE /\ result' = "Ok"
            /\ ret' = <<[equinox |-> equinox,
                         have_proper_motion |-> have_proper_motion,
                         id_type |-> id_type,
                         stars |-> stars]>>
            /\ pc' = "done"
            /\ UNCHANGED <<i, ent>>
    /\ UNCHANGED <<stream, pos, hvals, equinox, nstar, have_proper_motion,
                   id_type, stars>>

\* RawEntry::read_from: the next of the eight field reads.
ReadEntryField ==
    /\ pc = "entry"
    /\ LET k == Len(ent) + 1
           r == read_field(k, stream, pos)
       IN  IF r.ok
           THEN /\ ent' = Append(ent, r.val[1])
                /\ pos' = pos + FieldWidth(k)
                /\ pc' = IF k = EntryFields THEN "filter" ELSE "entry"
                /\ UNCHANGED <<result, ret>>
           ELSE /\ pos' \in IF r.err = "TruncatedInput"
                            THEN EofCursors(stream, pos)
                            ELSE {pos + FieldWidth(k)}
                /\ Fail(r.err)
                /\ UNCHANGED ent
    /\ UNCHANGED <<stream, hvals, equinox, nstar, have_proper_motion,
                   id_type, stars, i>>

\* if entry.valid() { ... }
Filter ==
    /\ pc = "filter"
    /\ pc' = IF valid(RawEntry(ent)) THEN "convert" ELSE "loop"
    /\ UNCHANGED <<stream, pos, hvals, ent, equinox, nstar,
                   have_proper_motion, id_type, stars, i, result, ret>>

\* let star = Star::try_from(entry)?; stars.push(star);
push_front(v, x) == <<x>> \o v

push(v, x) == Append(v, x)

Convert ==
    /\ pc = "convert"
    /\ LET r == try_from_raw(RawEntry(ent))
       IN  IF r.ok
           THEN /\ stars' = push(stars, r.val[1])
                /\ pc' = "loop"
                /\ UNCHANGED <<result, ret>>
           ELSE /\ Fail(r.err)
                /\ UNCHANGED stars
    /\ UNCHANGED <<stream, pos, hvals, ent, equinox, nstar,
                   have_proper_motion, id_type, i>>

Next ==
    \/ ReadHeaderField
    \/ CheckEntrySize
    \/ DeriveCount
    \/ Allocate
    \/ ConvertStnum
    \/ LoopTest
    \/ ReadEntryField
    \/ Filter
    \/ Convert

Spec == Init /\ [][Next]_vars

(***************************************************************************)
(* The file as it lies on disk, independently of the decoder's steps:      *)
(* the header at offset 0, record j (from 0) at offset 28 + 32 j.          *)
(***************************************************************************)
HeaderSize == 28

Slice(s, from, n) == SubSeq(s, from + 1, from + n)

DiskHeaderComplete == Len(stream) >= HeaderSize

DiskHeader ==
    RawHeader([k \in 1..HeaderFields |->
                  I32FromLeBytes(Slice(stream, 4 * (k - 1), 4))])

\* The number of complete records the stream holds after the header.
DiskComplete == (Len(stream) - HeaderSize) \div EntrySize

DiskRecord(j) ==
    LET b == Slice(stream, HeaderSize + EntrySize * j, EntrySize)
    IN  [xno   |-> F32FromBits(U32FromLeBytes(Slice(b, 0, 4))),
         sra0  |-> F64FromBits(U64FromLeBytes(Slice(b, 4, 8))),
         sdec0 |-> F64FromBits(U64FromLeBytes(Slice(b, 12, 8))),
         is    |-> <<b[21], b[22]>>,
         mag   |-> I16FromLeBytes(Slice(b, 22, 2)),
         xrpm  |-> F32FromBits(U32FromLeBytes(Slice(b, 24, 4))),
         xdpm  |-> F32FromBits(U32FromLeBytes(Slice(b, 28, 4)))]

IsBlank(r) == r.is = <<32, 32>>

\* A star number that is NaN, infinite or below zero.
BadXno(x) ==
    \/ x.exp = 255
    \/ (x.sign = 1 /\ (x.exp # 0 \/ x.frac # 0))

AbsI32(x) == IF x < 0 THEN -x ELSE x

\* The header passes every check and the record count is |starn|.
HeaderAccepted ==
    /\ DiskHeaderComplete
    /\ DiskHeader.nbent = 32
    /\ DiskHeader.stnum \in {0, 1, 2}
    /\ DiskHeader.starn # MinI32

\* j < |starn|, for a small j.
BelowCount(j) == j < AbsI32(DiskHeader.starn)

\* Records 0..j-1 are complete on disk and none of them stops the decoder.
NoFailureBefore(j) ==
    /\ j <= DiskComplete
    /\ \A k \in 0..(j - 1) :
          IsBlank(DiskRecord(k)) \/ ~BadXno(DiskRecord(k).xno)

\* The non-blank ones among the on-disk records 0..R-1, in order.
KeptRecords(R) == SelectSeq([j \in 1..R |-> DiskRecord(j - 1)],
                            LAMBDA r : ~IsBlank(r))

BlankCount(R) == Cardinality({j \in 0..(R - 1) : IsBlank(DiskRecord(j))})

Succeeded == pc = "done" /\ result = "Ok"

\* On success the count is representable and the stream holds R records.
CountOnSuccess == AbsI32(DiskHeader.starn)

(***************************************************************************)
(* C1.  On success with record count R the returned stars are exactly the  *)
(* on-disk records 0..R-1 without the blank/blank ones, in on-disk order:  *)
(* no returned star is blank/blank, each kept record appears once, at its  *)
(* place, and the length is R minus the number of blank/blank records.     *)
(***************************************************************************)
C1_FilteredInOrder ==
    Succeeded =>
      /\ Len(ret) = 1
      /\ DiskHeader.starn # MinI32
      /\ CountOnSuccess <= DiskComplete
      /\ LET R == CountOnSuccess
             kept == KeptRecords(R)
             out == ret[1].stars
         IN  /\ Len(out) = R - BlankCount(R)
             /\ Len(out) = Len(kept)
             /\ \A k \in 1..Len(out) :
                   /\ out[k].is # <<32, 32>>
                   /\ out[k].is = kept[k].is
                   /\ out[k].xno = F32AsU32(kept[k].xno)
                   /\ out[k].sra0 = kept[k].sra0
                   /\ out[k].sdec0 = kept[k].sdec0

C1_Witness ==
    /\ Succeeded
    /\ Len(ret[1].stars) >= 2
    /\ ret[1].stars[1].is # ret[1].stars[2].is
    /\ BlankCount(CountOnSuccess) >= 1

(***************************************************************************)
(* C2.  With an accepted header, a complete non-blank record j < R whose   *)
(* star number is NaN, infinite or negative, and no failure before it, the *)
(* decode ends with the invalid-star-number error, returns nothing (the    *)
(* stars of records 0..j-1 are dropped) and has read no byte past record j.*)
(***************************************************************************)
C2_InvalidXnoAborts ==
    (pc = "done" /\ HeaderAccepted) =>
      \A j \in 0..(DiskComplete - 1) :
         ( /\ BelowCount(j)
           /\ NoFailureBefore(j)
           /\ ~IsBlank(DiskRecord(j))
           /\ BadXno(DiskRecord(j).xno) )
         => /\ result = "InvalidStarNumber"
            /\ ret = <<>>
            /\ pos = HeaderSize + EntrySize * (j + 1)
            /\ i = j + 1

C2_Witness ==
    /\ pc = "done"
    /\ result = "InvalidStarNumber"
    /\ ret = <<>>
    /\ Len(stars) >= 1
    /\ Len(stream) >= pos + EntrySize
    /\ BelowCount(i)

\* |x| of an i32 as a usize, 2^31 for i32::MIN.
AbsAsUsize(x) ==
    IF x = MinI32 THEN <<0, 32768, 0, 0>>
    ELSE <<AbsI32(x) % 65536, AbsI32(x) \div 65536, 0, 0>>

(***************************************************************************)
(* C3.  For every i32 starn, with nbent = 32 and stnum in {0,1,2}: the     *)
(* equinox is J2000 for starn < 0 and B1950 otherwise, the record count is *)
(* |starn|, a non-negative count, and the decode does not panic.           *)
(***************************************************************************)
C3_CountIsAbsStarn ==
    ( /\ DiskHeaderComplete
      /\ DiskHeader.nbent = 32
      /\ DiskHeader.stnum \in {0, 1, 2}
      /\ pc \notin {"header", "nbent", "count"} )
    => /\ result \notin {"PanicNegOverflow", "PanicCapacityOverflow"}
       /\ equinox = (IF DiskHeader.starn < 0 THEN "J2000" ELSE "B1950")
       /\ nstar = AbsAsUsize(DiskHeader.starn)
       /\ (Succeeded => I32AsUsize(i) = AbsAsUsize(DiskHeader.starn))
       /\ (Succeeded /\ DiskHeader.starn = 0 => ret[1].stars = <<>>)

(***************************************************************************)
(* C4.  The cursor never moves back; every loop test finds it at           *)
(* 28 + 32 i after i records, kept or filtered; on success it stands at    *)
(* 28 + 32 R, so that what follows is unread, and the catalog returned is  *)
(* the one the first 28 + 32 R bytes determine.                            *)
(***************************************************************************)
C4_ForwardPass ==
    [][ /\ pos' >= pos
        /\ (pc' = "loop" => pos' = HeaderSize + EntrySize * i')
        /\ (result' = "Ok" =>
              /\ DiskHeader.starn # MinI32
              /\ CountOnSuccess <= DiskComplete
              /\ pos' = HeaderSize + EntrySize * CountOnSuccess
              /\ Len(ret'[1].stars) = Len(KeptRecords(CountOnSuccess))) ]_vars

C4_Witness ==
    /\ Succeeded
    /\ Len(stream) > pos
    /\ CountOnSuccess >= 2
    /\ BlankCount(CountOnSuccess) >= 1
    /\ Len(ret[1].stars) >= 1

(***************************************************************************)
(* C5.  A fully read blank/blank record never fails the decode, whatever   *)
(* its star number: the filter sends it back to the loop test with the     *)
(* stars, the cursor and the outcome untouched, and the invalid-star-number*)
(* error is only ever raised for a record that is not blank/blank.         *)
(***************************************************************************)
C5_BlankSkipped ==
    [][ /\ (pc = "filter" /\ IsBlank(RawEntry(ent)))
           => /\ pc' = "loop"
              /\ result' = "running"
              /\ stars' = stars
              /\ pos' = pos
        /\ (result' = "InvalidStarNumber" /\ result = "running")
           => ~IsBlank(RawEntry(ent)) ]_vars

C5_Witness ==
    /\ pc = "loop"
    /\ result = "running"
    /\ Len(ent) = EntryFields
    /\ IsBlank(RawEntry(ent))
    /\ BadXno(RawEntry(ent).xno)
    /\ loop_continues(i, nstar)

(***************************************************************************)
(* C6.  With a complete header whose nbent is not 32 the decode ends with  *)
(* the bad-entry-size error right after the header: the cursor is at 28,   *)
(* no record was started, nothing is returned, whatever starn and stnum.   *)
(***************************************************************************)
C6_BadEntrySize ==
    ( /\ DiskHeaderComplete
      /\ DiskHeader.nbent # 32
      /\ pc \notin {"header", "nbent"} )
    => /\ pc = "done"
       /\ result = "BadEntrySize"
       /\ pos = HeaderSize
       /\ i = 0
       /\ ret = <<>>

C6_Witness ==
    /\ result = "BadEntrySize"
    /\ DiskHeader.stnum \notin {0, 1, 2}
    /\ DiskHeader.starn = MinI32
    /\ Len(stream) > pos

(***************************************************************************)
(* C7.  stnum 0, 1, 2 give None, SeeCatalog, Included; for every other     *)
(* i32 stnum, with nbent = 32, the decode ends with the invalid-stnum      *)
(* error and the cursor at 28, whatever starn and the record bytes.        *)
(***************************************************************************)
C7_StnumTable ==
    ( /\ DiskHeaderComplete
      /\ DiskHeader.nbent = 32 )
    => /\ (pc \in {"loop", "entry", "filter", "convert"} =>
             id_type = CASE DiskHeader.stnum = 0 -> "None"
                         [] DiskHeader.stnum = 1 -> "SeeCatalog"
                         [] DiskHeader.stnum = 2 -> "Included"
                         [] OTHER -> "no such IdType")
       /\ (pc = "done" /\ DiskHeader.stnum \notin {0, 1, 2} =>
             /\ result = "InvalidStnum"
             /\ pos = HeaderSize
             /\ i = 0)

\* The stream ends before offset 28 + 32 R and nothing fails before that.
StreamEndsEarly ==
    \/ ~DiskHeaderComplete
    \/ /\ HeaderAccepted
       /\ BelowCount(DiskComplete)
       /\ NoFailureBefore(DiskComplete)

(***************************************************************************)
(* C8.  When the stream ends inside the header, or inside a record j < R   *)
(* (kept or blank) with an accepted header and no failure before it, the   *)
(* decode ends with the truncated-input error and returns nothing: the     *)
(* stars of the earlier records are dropped.                               *)
(***************************************************************************)
C8_Truncated ==
    (pc = "done" /\ StreamEndsEarly) =>
       /\ result = "TruncatedInput"
       /\ ret = <<>>
       /\ pos <= Len(stream)

C8_Witness ==
    /\ pc = "done"
    /\ result = "TruncatedInput"
    /\ ret = <<>>
    /\ Len(stars) >= 1
    /\ Len(ent) >= 5
    /\ IsBlank([is |-> <<ent[4], ent[5]>>])

(***************************************************************************)
(* C9.  read_char succeeds on every byte 0..255 and returns the code point *)
(* equal to the byte: both spectral-type characters of a record being read *)
(* are the bytes at offsets 20 and 21 of it, and no decode ends with the   *)
(* invalid-char error.                                                     *)
(***************************************************************************)
C9_ReadCharTotal ==
    /\ result # "InvalidChar"
    /\ (pc \in {"entry", "filter", "convert"} /\ Len(ent) >= 4) =>
          ent[4] = stream[HeaderSize + EntrySize * (i - 1) + 21]
    /\ (pc \in {"entry", "filter", "convert"} /\ Len(ent) >= 5) =>
          ent[5] = stream[HeaderSize + EntrySize * (i - 1) + 22]
    /\ (pc = "done" /\ Len(ent) \in {3, 4} /\ pos < Len(stream)) =>
          result \notin {"TruncatedInput", "InvalidChar"}

C9_Witness ==
    /\ pc = "filter"
    /\ ent[4] = 255
    /\ stream[HeaderSize + 21] = 255

(***************************************************************************)
(* C10.  The conversion of a retained record.                              *)
(***************************************************************************)
\* The integer part of a finite f32 >= 0, as eight 16-bit limbs.
Zeros(n) == [k \in 1..n |-> 0]

IntPart(x) ==
    IF x.exp < 127 THEN Zeros(8)
    ELSE LET sig == 8388608 + x.frac
             sh  == x.exp - 150
         IN  IF sh <= 0
             THEN LET v == sig \div Pow2(-sh)
                  IN  <<v % 65536, v \div 65536>> \o Zeros(6)
             ELSE LET r  == sh % 16
                      t0 == (sig % 65536) * Pow2(r)
                      t1 == (sig \div 65536) * Pow2(r) + t0 \div 65536
                  IN  SubSeq(Zeros(sh \div 16)
                               \o <<t0 % 65536, t1 % 65536, t1 \div 65536>>
                               \o Zeros(8), 1, 8)

\* out is the f32 nearest to mag / 100, ties to the even significand.
NearestHundredth(mag, out) ==
    IF mag = 0 THEN out = [sign |-> 0, exp |-> 0, frac |-> 0]
    ELSE LET n   == AbsI32(mag)
             sig == 8388608 + out.frac
             k   == 150 - out.exp
         IN  /\ out.sign = (IF mag < 0 THEN 1 ELSE 0)
             /\ k \in 15..30
             /\ n <= 1677721600 \div Pow2(k)
             /\ LET d == 100 * sig - n * Pow2(k)
                    a == IF d < 0 THEN -d ELSE d
                IN  2 * a < 100 \/ (2 * a = 100 /\ sig % 2 = 0)

PassedThrough(raw, star) ==
    /\ star.is = raw.is
    /\ star.sra0 = raw.sra0
    /\ star.sdec0 = raw.sdec0
    /\ star.xrpm = raw.xrpm
    /\ star.xdpm = raw.xdpm
    /\ NearestHundredth(raw.mag, star.mag)

\* C10 as claimed: the catalog number of every retained record is the
\* integer part of its raw xno, also for xno at or above 2^32; the other
\* fields pass through and mag is raw mag / 100.
C10_IntegerPartAlways ==
    Succeeded =>
      \A k \in 1..Len(ret[1].stars) :
         LET raw == KeptRecords(CountOnSuccess)[k]
             star == ret[1].stars[k]
         IN  /\ star.xno \o Zeros(6) = IntPart(raw.xno)
             /\ PassedThrough(raw, star)

\* C10 as amended: the catalog number of every retained record is the
\* integer part of its raw xno when that is below 2^32, and 2^32 - 1 when
\* xno is at or above 2^32; the spectral type, sra0, sdec0, xrpm and xdpm
\* pass through unchanged and mag is the f32 nearest to raw mag / 100.
C10_IntegerPartSaturating ==
    Succeeded =>
      \A k \in 1..Len(ret[1].stars) :
         LET raw == KeptRecords(CountOnSuccess)[k]
             star == ret[1].stars[k]
         IN  /\ star.xno \o Zeros(6) =
                   (IF raw.xno.exp >= 159 THEN <<65535, 65535>> \o Zeros(6)
                    ELSE IntPart(raw.xno))
             /\ PassedThrough(raw, star)

C10_Witness ==
    /\ Succeeded
    /\ Len(ret[1].stars) = 1
    /\ DiskRecord(0).xno.exp >= 159
    /\ DiskRecord(0).mag = 32767

====
